---- MODULE Spec2Model ----
(***************************************************************************)
(* Model of the shipyard entity-component store: the generational Key, the *)
(* Entities allocator with its embedded free list, the sparse-set          *)
(* component storages and the Get access layer.                            *)
(***************************************************************************)
EXTENDS Integers, Sequences, FiniteSets, TLC

(* ------------------------------------------------------------------------*)
(* Sizes.  USIZE_BITS (the width of usize) and Key::VERSION_LEN are the    *)
(* code's constants scaled down from 64 and 16 bits, so that the version   *)
(* field saturates after a few deletions; every Key operation below is     *)
(* written in terms of them, as in the code.  MaxEntities bounds the       *)
(* length of the allocator table, MaxWorldEntities the same where the      *)
(* component storages are modelled too.                                    *)
(* ------------------------------------------------------------------------*)
USIZE_BITS ==
    4

VERSION_LEN ==
    2

MaxEntities ==
    3

MaxWorldEntities ==
    2

(* The widths of core::any::TypeId's hash and of shipyard's TypeId, scaled  *)
(* down from 64 and 32 bits.                                               *)
NATIVE_BITS ==
    4

TYPE_ID_BITS ==
    2

(* the shared borrows of one storage that are held at a time *)
MaxShared ==
    3

(* ------------------------------------------------------------------------*)
(* usize arithmetic: words of USIZE_BITS bits.                             *)
(* ------------------------------------------------------------------------*)
RECURSIVE Pow2N(_)
Pow2N(n) ==
    IF n = 0 THEN 1 ELSE 2 * Pow2N(n - 1)

Pow2Table ==
    [n \in 0 .. USIZE_BITS |-> Pow2N(n)]

Pow2(n) ==
    Pow2Table[n]

WordMod ==
    Pow2(USIZE_BITS)

AllOnes ==
    WordMod - 1

Words ==
    0 .. AllOnes

RECURSIVE BitAndN(_, _, _)
BitAndN(a, b, n) ==
    IF n = 0 THEN 0
    ELSE (IF a % 2 = 1 /\ b % 2 = 1 THEN 1 ELSE 0) + 2 * BitAndN(a \div 2, b \div 2, n - 1)

RECURSIVE BitOrN(_, _, _)
BitOrN(a, b, n) ==
    IF n = 0 THEN 0
    ELSE (IF a % 2 = 1 \/ b % 2 = 1 THEN 1 ELSE 0) + 2 * BitOrN(a \div 2, b \div 2, n - 1)

(* the bitwise operations on words, tabulated once *)
BitAndTable ==
    [a \in Words |-> [b \in Words |-> BitAndN(a, b, USIZE_BITS)]]

BitOrTable ==
    [a \in Words |-> [b \in Words |-> BitOrN(a, b, USIZE_BITS)]]

BitAnd(a, b) ==
    BitAndTable[a][b]

BitOr(a, b) ==
    BitOrTable[a][b]

BitNot(a) ==
    AllOnes - a

Shr(a, n) ==
    a \div Pow2(n)

Shl(a, n) ==
    (a * Pow2(n)) % WordMod

(* ------------------------------------------------------------------------*)
(* Key: a packed word, index in the low bits, version in the high bits.    *)
(* ------------------------------------------------------------------------*)
INDEX_MASK ==
    Shr(AllOnes, VERSION_LEN)

VERSION_MASK ==
    BitNot(INDEX_MASK)

Key_index(k) ==
    BitAnd(k, INDEX_MASK)

(* version that leaves the field where it is in the word *)
Key_version_in_place(k) ==
    BitAnd(k, VERSION_MASK)

Key_version(k) ==
    Shr(BitAnd(k, VERSION_MASK), USIZE_BITS - VERSION_LEN)

(* Key::new that numbers the slots from one *)
Key_new_next(index) ==
    index + 1

Key_new(index) ==
    index

(* set_index that does not clear the old index *)
Key_set_index_or(k, index) ==
    BitOr(k, index)

(* set_index that leaves the key as it was *)
Key_set_index_drop(k, index) ==
    k

Key_set_index(k, index) ==
    BitOr(BitAnd(k, VERSION_MASK), index)

(* the test of bump_version with the mask shifted by VERSION_LEN *)
Key_bump_ok_full_shift(k) ==
    k < BitNot(Shr(AllOnes, VERSION_LEN))

(* the test of bump_version with <= for < *)
Key_bump_ok_late(k) ==
    k <= BitNot(Shr(AllOnes, VERSION_LEN - 1))

(* the test of bump_version: self.0 < !(!0 >> (VERSION_LEN - 1)) *)
Key_bump_ok(k) ==
    k < BitNot(Shr(AllOnes, VERSION_LEN - 1))

(* bump_version that reports Ok without changing the key *)
Key_bump_version_stuck(k) ==
    k

(* bump_version that adds two to the version *)
Key_bump_version_skip(k) ==
    IF Key_bump_ok(k)
    THEN BitOr(Key_index(k), Shl(Key_version(k) + 2, USIZE_BITS - VERSION_LEN))
    ELSE k

Key_bump_version(k) ==
    IF Key_bump_ok(k)
    THEN BitOr(Key_index(k), Shl(Key_version(k) + 1, USIZE_BITS - VERSION_LEN))
    ELSE k

(* version::MAX(), the largest value of the version field *)
VERSION_MAX ==
    Pow2(VERSION_LEN) - 1

Keys ==
    Words

(* ------------------------------------------------------------------------*)
(* State.                                                                  *)
(*   data, list : the fields of Entities.  data[i + 1] is the slot of      *)
(*                index i; list is None or <<head, tail>> of the free list.*)
(*   storages   : AllStorages, one SparseSet per component type.           *)
(*   ret        : what the last operation was given and what it returned.  *)
(*   issued, alive, freed, retired, cycles : the history of the handles    *)
(*                generate returned, kept beside the allocator and never   *)
(*                read by it.                                              *)
(*   touched    : the components of tracking storages that get on an       *)
(*                exclusive view has been used to write since the flags of *)
(*                the storage were last cleared; history as well.          *)
(*   borrow     : the borrow state of each storage and of the allocator:   *)
(*                the number of shared borrows held and whether an         *)
(*                exclusive borrow is held.                                *)
(*   player     : the demonstration game's unique Player (sizes in         *)
(*                hundredths).                                             *)
(*   frame      : where the game's workload is (pc), and the history of    *)
(*                the current game: since, the runs of the workload begun  *)
(*                since a collision last shrank the player (I_TICKS + 1    *)
(*                when none has, or for more), and shrinks, the times the  *)
(*                last run of the collision system shrank the player.      *)
(* ------------------------------------------------------------------------*)
VARIABLES data, list, storages, ret, issued, alive, freed, retired, cycles, touched,
          borrow, player, frame

vars ==
    <<data, list, storages, ret, issued, alive, freed, retired, cycles, touched, borrow,
      player, frame>>

None ==
    <<>>

Slot(d, index) ==
    d[index + 1]

SetSlot(d, index, k) ==
    [d EXCEPT ![index + 1] = k]

(* EntityViewMut::generate: pop the head of the free list, or push a new   *)
(* slot.  The version is not touched here: it was bumped by the delete.    *)
EntityViewMut_generate(d, l) ==
    IF l = None
    THEN LET key == Key_new(Len(d))
         IN  [data |-> Append(d, key), list |-> None, key |-> key]
    ELSE LET head == l[1]
             next == Key_index(Slot(d, head))
             d2   == SetSlot(d, head, Key_set_index(Slot(d, head), head))
         IN  [data |-> d2,
              list |-> IF head = l[2] THEN None ELSE <<next, l[2]>>,
              key  |-> Slot(d2, head)]

(* EntityViewMut::delete_key: true iff the key equals its slot; the slot's *)
(* version is bumped and, when the bump succeeds, linked at the tail.      *)
(* When bump_version returns Err the slot is what bump_version left, the   *)
(* key unchanged, and stays out of the list.                               *)
EntityViewMut_delete_key(d, l, key) ==
    IF Key_index(key) < Len(d) /\ Slot(d, Key_index(key)) = key
    THEN LET index  == Key_index(key)
             bumped == Key_bump_version(key)
             d1     == SetSlot(d, index, bumped)
         IN  IF Key_bump_ok(key)
             THEN IF l = None
                  THEN [data |-> d1, list |-> <<index, index>>, ok |-> TRUE]
                  ELSE [data |-> SetSlot(d1, l[2], Key_set_index(Slot(d1, l[2]), index)),
                        list |-> <<l[1], index>>, ok |-> TRUE]
             ELSE [data |-> d1, list |-> l, ok |-> TRUE]
    ELSE [data |-> d, list |-> l, ok |-> FALSE]

(* ------------------------------------------------------------------------*)
(* SparseSet: sparse[index] is 0 (absent) or a position in dense; dense[p] *)
(* is the owning id with its insertion/modification flags; data[p] is the  *)
(* component.  track is is_tracking_modification().                        *)
(* ------------------------------------------------------------------------*)
Types ==
    {"usize", "u32"}

Values ==
    {1, 2}

SparseSet_new(track) ==
    [sparse |-> [i \in 0 .. INDEX_MASK |-> 0], dense |-> <<>>, data |-> <<>>,
     track |-> track]

(* position of entity in dense, 0 for None *)
SparseSet_index_of(s, entity) ==
    LET p == s.sparse[Key_index(entity)]
    IN  IF p # 0 /\ s.dense[p].id = entity THEN p ELSE 0

SparseSet_contains(s, entity) ==
    SparseSet_index_of(s, entity) # 0

SparseSet_insert(s, entity, value) ==
    LET p == s.sparse[Key_index(entity)]
    IN  IF p # 0
        THEN [s EXCEPT !.data[p] = value]
        ELSE [s EXCEPT !.dense = Append(@, [id |-> entity, inserted |-> s.track,
                                              modified |-> FALSE]),
                       !.data = Append(@, value),
                       !.sparse[Key_index(entity)] = Len(s.dense) + 1]

(* removal that swaps in dense but shifts data down *)
SparseSet_remove_shift_data(s, entity) ==
    LET p    == SparseSet_index_of(s, entity)
        last == Len(s.dense)
    IN  IF p = 0
        THEN [set |-> s, removed |-> 0]
        ELSE [set |-> [s EXCEPT
                         !.sparse = [[@ EXCEPT ![Key_index(s.dense[last].id)] = p]
                                        EXCEPT ![Key_index(entity)] = 0],
                         !.dense = SubSeq([@ EXCEPT ![p] = s.dense[last]], 1, last - 1),
                         !.data = SubSeq(@, 1, p - 1) \o SubSeq(@, p + 1, last)],
              removed |-> s.data[p]]

(* swap-removal that leaves the moved entry's sparse pointer as it was *)
SparseSet_remove_stale_pointer(s, entity) ==
    LET p    == SparseSet_index_of(s, entity)
        last == Len(s.dense)
    IN  IF p = 0
        THEN [set |-> s, removed |-> 0]
        ELSE [set |-> [s EXCEPT
                         !.sparse = [@ EXCEPT ![Key_index(entity)] = 0],
                         !.dense = SubSeq([@ EXCEPT ![p] = s.dense[last]], 1, last - 1),
                         !.data = SubSeq([@ EXCEPT ![p] = s.data[last]], 1, last - 1)],
              removed |-> s.data[p]]

(* swap-removal; removed is the value taken out, 0 for None *)
SparseSet_remove(s, entity) ==
    LET p    == SparseSet_index_of(s, entity)
        last == Len(s.dense)
    IN  IF p = 0
        THEN [set |-> s, removed |-> 0]
        ELSE [set |-> [s EXCEPT
                         !.sparse = [[@ EXCEPT ![Key_index(s.dense[last].id)] = p]
                                        EXCEPT ![Key_index(entity)] = 0],
                         !.dense = SubSeq([@ EXCEPT ![p] = s.dense[last]], 1, last - 1),
                         !.data = SubSeq([@ EXCEPT ![p] = s.data[last]], 1, last - 1)],
              removed |-> s.data[p]]

(* iteration with ids: the handles of dense in order, each with its        *)
(* component                                                               *)
SparseSet_iter_with_id(s) ==
    [p \in 1 .. Len(s.dense) |-> <<s.dense[p].id, s.data[p]>>]

(* AllStorages::delete: remove the entity from every storage, whether or   *)
(* not it is there.                                                        *)
AllStorages_delete(st, entity) ==
    [t \in Types |-> SparseSet_remove(st[t], entity).set]

(* AllStorages::default *)
InitStorages ==
    storages = [t \in Types |-> SparseSet_new(t = "usize")]

(* Entities::default *)
InitEntities ==
    /\ data = <<>>
    /\ list = None

InitHistory ==
    /\ ret = [op |-> "none"]
    /\ issued = {}
    /\ alive = {}
    /\ freed = <<>>
    /\ retired = {}
    /\ cycles = [i \in 0 .. INDEX_MASK |-> 0]
    /\ touched = {}

(* what can be borrowed: every storage, and the allocator *)
Borrowables ==
    Types \cup {"entities"}

(* nothing is borrowed *)
InitBorrow ==
    borrow = [b \in Borrowables |-> [shared |-> 0, exclusive |-> FALSE]]

(* ------------------------------------------------------------------------*)
(* The demonstration game (square_eater).  Lengths are counted in          *)
(* hundredths, so that INIT_SIZE / 4. and MAX_SIZE - 0.01 are integers.    *)
(* Where the squares and the mouse are is not modelled: which squares the  *)
(* player overlaps in a run of the collision system is an input.           *)
(* ------------------------------------------------------------------------*)
INIT_SIZE ==
    500

MAX_SIZE ==
    2500

(* the runs of the counters system that end invincibility *)
I_TICKS ==
    10

(* the runs of the counters system that end the squagum's effect *)
SQUAGUM_TICKS ==
    120

(* the most squares the player overlaps in one run of the collision system *)
MaxHits ==
    2

Min(a, b) ==
    IF a <= b THEN a ELSE b

(* the unique Player that init_world adds *)
Player_new ==
    [is_invincible |-> FALSE, i_counter |-> 0, squagum |-> FALSE, squagum_counter |-> 0,
     w |-> INIT_SIZE * 3, h |-> INIT_SIZE * 3]

(* counters, clearing invincibility one run later *)
counters_late(p) ==
    LET i == IF p.is_invincible
                THEN IF p.i_counter + 1 > I_TICKS
                        THEN [p EXCEPT !.is_invincible = FALSE, !.i_counter = 0]
                        ELSE [p EXCEPT !.i_counter = p.i_counter + 1]
                ELSE p
    IN  IF i.squagum
           THEN IF i.squagum_counter + 1 >= SQUAGUM_TICKS
                   THEN [i EXCEPT !.squagum = FALSE, !.squagum_counter = 0]
                   ELSE [i EXCEPT !.squagum_counter = i.squagum_counter + 1]
           ELSE i

(* the counters system *)
counters(p) ==
    LET i == IF p.is_invincible
                THEN IF p.i_counter + 1 >= I_TICKS
                        THEN [p EXCEPT !.is_invincible = FALSE, !.i_counter = 0]
                        ELSE [p EXCEPT !.i_counter = p.i_counter + 1]
                ELSE p
    IN  IF i.squagum
           THEN IF i.squagum_counter + 1 >= SQUAGUM_TICKS
                   THEN [i EXCEPT !.squagum = FALSE, !.squagum_counter = 0]
                   ELSE [i EXCEPT !.squagum_counter = i.squagum_counter + 1]
           ELSE i

(* collision, the loop over the squagums: pickup says that the player      *)
(* contains one                                                            *)
collision_squagums(p, pickup) ==
    IF pickup THEN [p EXCEPT !.squagum = TRUE] ELSE p

(* the kinds of square the player overlaps: "big" is a square of MAX_SIZE, *)
(* "small" one no higher than the player                                   *)
HitKinds ==
    {"big", "small"}

(* a square that is not of MAX_SIZE is at least INIT_SIZE high *)
CanHit(p, kind) ==
    kind = "small" => p.h >= INIT_SIZE

(* collision, the body of the loop over the squares, for one overlapped    *)
(* square: s.player is the player, s.shrinks counts the times the loop     *)
(* has shrunk the player                                                   *)
collision_rect(s, kind) ==
    LET p == s.player
    IN  IF kind = "big"
           THEN LET e == IF p.squagum
                            THEN [p EXCEPT !.w = Min(p.w + INIT_SIZE \div 4, MAX_SIZE - 1),
                                           !.h = Min(p.h + INIT_SIZE \div 4, MAX_SIZE - 1)]
                            ELSE p
                IN  IF ~e.is_invincible
                       THEN [player |-> [e EXCEPT !.is_invincible = TRUE,
                                                  !.w = e.w - INIT_SIZE \div 2,
                                                  !.h = e.h - INIT_SIZE \div 2],
                             shrinks |-> s.shrinks + 1]
                       ELSE [player |-> e, shrinks |-> s.shrinks]
           ELSE [player |-> [p EXCEPT !.w = Min(p.w + INIT_SIZE \div 2, MAX_SIZE - 1),
                                      !.h = Min(p.h + INIT_SIZE \div 2, MAX_SIZE - 1)],
                 shrinks |-> s.shrinks]

(* collision, the loop over the squares; hits are the overlapped ones *)
RECURSIVE collision_rects(_, _)
collision_rects(s, hits) ==
    IF hits = <<>> THEN s ELSE collision_rects(collision_rect(s, Head(hits)), Tail(hits))

(* the overlapped squares the loop can meet, one after the other *)
RECURSIVE CanHitAll(_, _)
CanHitAll(s, hits) ==
    IF hits = <<>>
       THEN TRUE
       ELSE /\ CanHit(s.player, Head(hits))
            /\ CanHitAll(collision_rect(s, Head(hits)), Tail(hits))

(* the collision system *)
collision(p, pickup, hits) ==
    collision_rects([player |-> collision_squagums(p, pickup), shrinks |-> 0], hits)

(* the clean_up system's result; empty says that no square is left *)
clean_up(p, empty) ==
    IF p.w < INIT_SIZE \/ p.h < INIT_SIZE
       THEN "Loose"
       ELSE IF empty THEN "Victory" ELSE "Ok"

(* main, before the first click: the world holds a new player and the      *)
(* game is not started                                                     *)
InitGame ==
    /\ player = Player_new
    /\ frame = [pc |-> "menu", since |-> I_TICKS + 1, shrinks |-> 0]

Init ==
    /\ InitEntities
    /\ InitStorages
    /\ InitHistory
    /\ InitBorrow
    /\ InitGame

(* The largest valid version: a handle carrying it cannot be reused.       *)
LastVersion ==
    VERSION_MAX - 1

(* Entities::generate *)
Generate ==
    /\ list = None => (Len(data) < MaxEntities /\ Len(data) <= INDEX_MASK)
    /\ LET r == EntityViewMut_generate(data, list)
       IN  /\ data' = r.data
           /\ list' = r.list
           /\ ret' = [op |-> "generate", key |-> r.key, queued |-> Len(freed)]
           /\ issued' = issued \cup {r.key}
           /\ alive' = alive \cup {r.key}
           /\ freed' = IF freed = <<>> THEN freed ELSE Tail(freed)
           /\ cycles' = [cycles EXCEPT ![Key_index(r.key)] = @ + 1]
           /\ UNCHANGED <<storages, retired, touched, borrow, player, frame>>

(* How a delete of key changes the history: a handle stops being alive,    *)
(* and is queued for reuse unless it carries the last valid version.       *)
DeleteHistory(key) ==
    /\ alive' = alive \ {key}
    /\ freed' = IF key \in alive /\ Key_version(key) < LastVersion
                THEN Append(freed, key) ELSE freed
    /\ retired' = IF key \in alive /\ Key_version(key) = LastVersion
                  THEN retired \cup {key} ELSE retired
    /\ UNCHANGED <<issued, cycles, touched, borrow, player, frame>>

(* EntityViewMut::delete_key, as the allocator's own test calls it *)
DeleteKey(key) ==
    /\ Key_index(key) < Len(data)
    /\ LET r == EntityViewMut_delete_key(data, list, key)
       IN  /\ data' = r.data
           /\ list' = r.list
           /\ ret' = [op |-> "delete", key |-> key, ok |-> r.ok,
                      wasAlive |-> key \in alive, wasRetired |-> key \in retired]
    /\ DeleteHistory(key)
    /\ UNCHANGED storages

(* EntityViewMut::delete: delete the key and, when it was alive, all its   *)
(* components.                                                             *)
EntityViewMut_delete(d, l, st, entity) ==
    LET r == EntityViewMut_delete_key(d, l, entity)
    IN  [data |-> r.data, list |-> r.list, ok |-> r.ok,
         storages |-> IF r.ok THEN AllStorages_delete(st, entity) ELSE st]

(* Entities::delete without the storages: only the key is deleted *)
Delete_key_only(entity) ==
    /\ LET r == EntityViewMut_delete_key(data, list, entity)
       IN  /\ data' = r.data
           /\ list' = r.list
           /\ ret' = [op |-> "delete", key |-> entity, ok |-> r.ok,
                      wasAlive |-> entity \in alive, wasRetired |-> entity \in retired,
                      had |-> {t \in Types : SparseSet_contains(storages[t], entity)}]
    /\ DeleteHistory(entity)
    /\ UNCHANGED storages

(* Entities::delete *)
Delete(entity) ==
    /\ LET r == EntityViewMut_delete(data, list, storages, entity)
       IN  /\ data' = r.data
           /\ list' = r.list
           /\ storages' = r.storages
           /\ ret' = [op |-> "delete", key |-> entity, ok |-> r.ok,
                      wasAlive |-> entity \in alive, wasRetired |-> entity \in retired,
                      had |-> {t \in Types : SparseSet_contains(storages[t], entity)}]
    /\ DeleteHistory(entity)

(* The component an entity is given: it names the entity's index, so a     *)
(* component that ends up under another entity shows.                      *)
ComponentOf(entity) ==
    Key_index(entity) + 1

(* Adding a component to an entity whose key is current: SparseSet::insert *)
(* on the storage of the component's type.                                 *)
AddComponent(t, entity) ==
    /\ Slot(data, Key_index(entity)) = entity
    /\ storages' = [storages EXCEPT ![t] = SparseSet_insert(@, entity, ComponentOf(entity))]
    /\ ret' = [op |-> "insert"]
    /\ UNCHANGED <<data, list, issued, alive, freed, retired, cycles, touched, borrow, player, frame>>

(* ------------------------------------------------------------------------*)
(* A Key on its own, as the allocator's code and its test use one: made by *)
(* Key::new, then changed by set_index and bump_version.  ret holds the    *)
(* key after the call (key), the key before (from), the index given (arg)  *)
(* and built, the index and the generation the key has been given by the   *)
(* calls so far.  An index beyond INDEX_MASK fails the assert of new and   *)
(* set_index: the call panics and the key is gone.                         *)
(* ------------------------------------------------------------------------*)
HasKey ==
    ret.op \in {"new", "set_index", "bump_version"}

KeyNew(index) ==
    /\ ret' = IF index <= INDEX_MASK
              THEN [op |-> "new", from |-> 0, arg |-> index, key |-> Key_new(index),
                    ok |-> TRUE, built |-> <<index, 0>>]
              ELSE [op |-> "panic", from |-> 0, arg |-> index]
    /\ UNCHANGED <<data, list, storages, issued, alive, freed, retired, cycles, touched,
                   borrow, player, frame>>

KeySetIndex(index) ==
    /\ HasKey
    /\ ret' = IF index <= INDEX_MASK
              THEN [op |-> "set_index", from |-> ret.key, arg |-> index,
                    key |-> Key_set_index(ret.key, index),
                    ok |-> TRUE, built |-> <<index, ret.built[2]>>]
              ELSE [op |-> "panic", from |-> ret.key, arg |-> index]
    /\ UNCHANGED <<data, list, storages, issued, alive, freed, retired, cycles, touched,
                   borrow, player, frame>>

KeyBumpVersion ==
    /\ HasKey
    /\ ret' = [op |-> "bump_version", from |-> ret.key, arg |-> 0,
               key |-> Key_bump_version(ret.key),
               ok |-> Key_bump_ok(ret.key),
               built |-> IF Key_bump_ok(ret.key)
                         THEN <<ret.built[1], ret.built[2] + 1>> ELSE ret.built]
    /\ UNCHANGED <<data, list, storages, issued, alive, freed, retired, cycles, touched,
                   borrow, player, frame>>

NextKey ==
    \/ \E index \in Words : KeyNew(index)
    \/ \E index \in Words : KeySetIndex(index)
    \/ KeyBumpVersion

SpecKey ==
    Init /\ [][NextKey]_vars

(* ------------------------------------------------------------------------*)
(* TypeId.  A type is named by its native token, core::any::TypeId, which  *)
(* differs from type to type; shipyard's TypeId is the token's hash cut to *)
(* TYPE_ID_BITS bits.                                                      *)
(* ------------------------------------------------------------------------*)
NativeTypeIds ==
    0 .. Pow2N(NATIVE_BITS) - 1

(* TypeIdHasher: finish() gives back the word the token wrote *)
TypeIdHasher_finish(native) ==
    native

(* impl From<core::any::TypeId> for TypeId: TypeId(hasher.finish() as u32) *)
TypeId_from(native) ==
    TypeIdHasher_finish(native) % Pow2N(TYPE_ID_BITS)

(* TypeId::of::<T>(), T given by its token *)
TypeId_of(native) ==
    TypeId_from(native)

(* #[derive(PartialEq)] on TypeId(u32) *)
TypeId_eq(a, b) ==
    a = b

(* impl PartialEq<core::any::TypeId> for TypeId *)
TypeId_eq_native(self, other) ==
    TypeId_eq(self, TypeId_from(other))

(* impl PartialEq<TypeId> for core::any::TypeId *)
Native_eq_TypeId(self, other) ==
    TypeId_eq_native(other, self)

(* the identifiers of two types are taken and compared, with each other    *)
(* and with the second type's token                                        *)
CompareTypeIds(a, b) ==
    /\ ret' = [op |-> "type_id", a |-> a, b |-> b,
               id_a |-> TypeId_of(a), id_b |-> TypeId_of(b),
               eq |-> TypeId_eq(TypeId_of(a), TypeId_of(b)),
               eq_native |-> TypeId_eq_native(TypeId_of(a), b),
               native_eq |-> Native_eq_TypeId(b, TypeId_of(a))]
    /\ UNCHANGED <<data, list, storages, issued, alive, freed, retired, cycles, touched,
                   borrow, player, frame>>

NextTypeId ==
    \E a \in NativeTypeIds, b \in NativeTypeIds : CompareTypeIds(a, b)

SpecTypeId ==
    Init /\ [][NextTypeId]_vars

(* Key has no public constructor: the handles a caller can pass are the    *)
(* ones generate has returned, alive or not.                               *)
NextEntities ==
    \/ Generate
    \/ \E key \in issued : DeleteKey(key)

SpecEntities ==
    Init /\ [][NextEntities]_vars

(* ------------------------------------------------------------------------*)
(* Get.  A result is Ok: [ok |-> TRUE, index, data] (index is the slot the *)
(* reference points into, data the component there; a Mut also carries     *)
(* flag, TRUE for Some(entity)), or Err(MissingComponent):                 *)
(* [ok |-> FALSE, id, name].                                               *)
(* ------------------------------------------------------------------------*)
(* SparseSet::private_get / private_get_mut: the slot of entity, 0 for None *)
SparseSet_private_get(s, entity) ==
    SparseSet_index_of(s, entity)

SparseSet_is_tracking_modification(s) ==
    s.track

MissingComponent(entity, name) ==
    [ok |-> FALSE, id |-> entity, name |-> name]

Ref(s, index) ==
    [ok |-> TRUE, index |-> index, data |-> s.data[index]]

(* get that trusts the sparse entry without comparing the owner *)
View_get_by_index(s, entity, name) ==
    LET index == s.sparse[Key_index(entity)]
    IN  IF index = 0 THEN MissingComponent(entity, name) ELSE Ref(s, index)

(* impl Get for &View<T> *)
View_get(s, entity, name) ==
    LET index == SparseSet_private_get(s, entity)
    IN  IF index = 0 THEN MissingComponent(entity, name) ELSE Ref(s, index)

View_fast_get(s, entity, name) ==
    LET index == SparseSet_private_get(s, entity)
    IN  IF index = 0 THEN MissingComponent(entity, name) ELSE Ref(s, index)

(* impl Get for &ViewMut<T> *)
ViewMut_get(s, entity, name) ==
    LET index == SparseSet_private_get(s, entity)
    IN  IF index = 0 THEN MissingComponent(entity, name) ELSE Ref(s, index)

ViewMut_fast_get(s, entity, name) ==
    LET index == SparseSet_private_get(s, entity)
    IN  IF index = 0 THEN MissingComponent(entity, name) ELSE Ref(s, index)

(* get that does not ask whether the storage tracks modification *)
MutViewMut_get_untracked_marker(s, entity, name) ==
    LET index == SparseSet_index_of(s, entity)
    IN  IF index = 0
        THEN MissingComponent(entity, name)
        ELSE [ok |-> TRUE, index |-> index, data |-> s.data[index],
              flag |-> ~s.dense[index].inserted]

(* get that hands out the marker whether or not the slot is inserted *)
MutViewMut_get_marked(s, entity, name) ==
    LET index == SparseSet_index_of(s, entity)
    IN  IF index = 0
        THEN MissingComponent(entity, name)
        ELSE [ok |-> TRUE, index |-> index, data |-> s.data[index],
              flag |-> SparseSet_is_tracking_modification(s)]

(* impl Get for &mut ViewMut<T> *)
MutViewMut_get(s, entity, name) ==
    LET index == SparseSet_index_of(s, entity)
    IN  IF index = 0
        THEN MissingComponent(entity, name)
        ELSE IF SparseSet_is_tracking_modification(s)
             THEN [ok |-> TRUE, index |-> index, data |-> s.data[index],
                   flag |-> ~s.dense[index].inserted]
             ELSE [ok |-> TRUE, index |-> index, data |-> s.data[index],
                   flag |-> FALSE]

(* fast_get whose error carries the entity's index for its id *)
MutViewMut_fast_get_index_id(s, entity, name) ==
    LET index == SparseSet_private_get(s, entity)
    IN  IF index = 0 THEN MissingComponent(Key_index(entity), name) ELSE Ref(s, index)

MutViewMut_fast_get(s, entity, name) ==
    LET index == SparseSet_private_get(s, entity)
    IN  IF index = 0 THEN MissingComponent(entity, name) ELSE Ref(s, index)

ViewKinds ==
    {"&View", "&ViewMut", "&mut ViewMut"}

GetOf(kind, fast, s, entity, name) ==
    CASE kind = "&View" ->
           IF fast THEN View_fast_get(s, entity, name) ELSE View_get(s, entity, name)
      [] kind = "&ViewMut" ->
           IF fast THEN ViewMut_fast_get(s, entity, name) ELSE ViewMut_get(s, entity, name)
      [] kind = "&mut ViewMut" ->
           IF fast THEN MutViewMut_fast_get(s, entity, name)
           ELSE MutViewMut_get(s, entity, name)

(* The ids the storage operations are given: two generations of index 0    *)
(* and one of index 1.                                                     *)
StorageIds ==
    {Key_new(0), Key_bump_version(Key_new(0)), Key_new(1)}

(* The storage operations leave the allocator alone, and the borrows: the  *)
(* views they go through are held throughout.                              *)
Unchanged_entities ==
    UNCHANGED <<data, list, issued, alive, freed, retired, cycles, borrow, player, frame>>

(* SparseSet::insert through an exclusive view *)
Insert(t, entity, value) ==
    /\ storages' = [storages EXCEPT ![t] = SparseSet_insert(@, entity, value)]
    /\ ret' = [op |-> "insert"]
    /\ UNCHANGED touched
    /\ Unchanged_entities

(* SparseSet::remove through an exclusive view *)
Remove(t, entity) ==
    /\ storages' = [storages EXCEPT ![t] = SparseSet_remove(@, entity).set]
    /\ ret' = [op |-> "remove", removed |-> SparseSet_remove(storages[t], entity).removed,
               at |-> SparseSet_index_of(storages[t], entity)]
    /\ touched' = IF SparseSet_contains(storages[t], entity)
                  THEN touched \ {<<t, entity>>} ELSE touched
    /\ Unchanged_entities

(* the end of a tracking epoch: the inserted flags are cleared *)
ClearInserted(t) ==
    /\ storages[t].track
    /\ storages' = [storages EXCEPT ![t].dense =
                       [p \in 1 .. Len(@) |-> [@[p] EXCEPT !.inserted = FALSE]]]
    /\ ret' = [op |-> "clear"]
    /\ touched' = {c \in touched : c[1] # t}
    /\ Unchanged_entities

(* get or fast_get on a view of one storage *)
Get(kind, fast, t, entity) ==
    /\ ret' = [op |-> "get", view |-> kind, fast |-> fast, ty |-> t, key |-> entity,
               res |-> GetOf(kind, fast, storages[t], entity, t)]
    /\ UNCHANGED <<storages, touched>>
    /\ Unchanged_entities

(* The ids given to a storage where the order of its slots matters: two    *)
(* generations of index 0, one of index 1 and one of index 2.              *)
SparseIds ==
    StorageIds \cup {Key_new(2)}

SparseTypes ==
    {"usize"}

NextSparse ==
    \/ \E t \in SparseTypes, entity \in SparseIds, value \in Values : Insert(t, entity, value)
    \/ \E t \in SparseTypes, entity \in SparseIds : Remove(t, entity)

SpecSparse ==
    Init /\ [][NextSparse]_vars

NextGet ==
    \/ \E t \in Types, entity \in StorageIds, value \in Values : Insert(t, entity, value)
    \/ \E t \in Types, entity \in StorageIds : Remove(t, entity)
    \/ \E t \in Types : ClearInserted(t)
    \/ \E kind \in ViewKinds, fast \in BOOLEAN, t \in Types, entity \in StorageIds :
          Get(kind, fast, t, entity)

SpecGet ==
    Init /\ [][NextGet]_vars

(* ------------------------------------------------------------------------*)
(* Writing through what get and fast_get on an exclusive view return.      *)
(* ------------------------------------------------------------------------*)
(* DerefMut for Mut: the marker, when there is one, flags its slot         *)
(* modified; the value goes to the slot's component.                       *)
Mut_deref_mut(s, r, value) ==
    [s EXCEPT !.data[r.index] = value,
              !.dense[r.index].modified = IF r.flag THEN TRUE ELSE @]

(* a write through &mut T *)
RefMut_write(s, r, value) ==
    [s EXCEPT !.data[r.index] = value]

(* the storage after value is written through the result r of a get *)
WriteThrough(s, r, value) ==
    IF ~r.ok THEN s
    ELSE IF "flag" \in DOMAIN r THEN Mut_deref_mut(s, r, value)
    ELSE RefMut_write(s, r, value)

(* get or fast_get on an exclusive view, and a write through its result *)
Write(fast, t, entity, value) ==
    /\ LET r == GetOf("&mut ViewMut", fast, storages[t], entity, t)
       IN  /\ storages' = [storages EXCEPT ![t] = WriteThrough(@, r, value)]
           /\ ret' = [op |-> "write", fast |-> fast, ty |-> t, key |-> entity, res |-> r,
                      again |-> <<t, entity>> \in touched]
           /\ touched' = IF r.ok /\ ~fast /\ storages[t].track
                         THEN touched \cup {<<t, entity>>} ELSE touched
    /\ Unchanged_entities

(* the modified flags of a storage are cleared *)
ClearModified(t) ==
    /\ storages[t].track
    /\ storages' = [storages EXCEPT ![t].dense =
                       [p \in 1 .. Len(@) |-> [@[p] EXCEPT !.modified = FALSE]]]
    /\ ret' = [op |-> "clear"]
    /\ touched' = {c \in touched : c[1] # t}
    /\ Unchanged_entities

(* The ids the tracked storages are given: one of index 0, one of index 1. *)
TrackIds ==
    {Key_new(0), Key_new(1)}

NextTrack ==
    \/ \E t \in Types, entity \in TrackIds : Insert(t, entity, ComponentOf(entity))
    \/ \E t \in Types, entity \in TrackIds : Remove(t, entity)
    \/ \E t \in Types : ClearInserted(t)
    \/ \E t \in Types : ClearModified(t)
    \/ \E fast \in BOOLEAN, t \in Types, entity \in TrackIds, value \in Values :
          Write(fast, t, entity, value)

SpecTrack ==
    Init /\ [][NextTrack]_vars

(* ------------------------------------------------------------------------*)
(* Borrowing.  A request is answered at once: Ok with the new borrow state *)
(* or Err(Borrow), the state as it was.                                    *)
(* ------------------------------------------------------------------------*)
BorrowModes ==
    {"shared", "exclusive"}

(* an exclusive borrow granted whenever no other exclusive borrow is held *)
Try_borrow_mut_over_shared(b) ==
    IF b.exclusive
    THEN [ok |-> FALSE, state |-> b]
    ELSE [ok |-> TRUE, state |-> [b EXCEPT !.exclusive = TRUE]]

(* a shared borrow: refused while an exclusive borrow is held *)
Try_borrow(b) ==
    IF b.exclusive
    THEN [ok |-> FALSE, state |-> b]
    ELSE [ok |-> TRUE, state |-> [b EXCEPT !.shared = @ + 1]]

(* an exclusive borrow: refused while any borrow is held *)
Try_borrow_mut(b) ==
    IF b.exclusive \/ b.shared > 0
    THEN [ok |-> FALSE, state |-> b]
    ELSE [ok |-> TRUE, state |-> [b EXCEPT !.exclusive = TRUE]]

Unchanged_store ==
    UNCHANGED <<data, list, storages, issued, alive, freed, retired, cycles, touched,
                player, frame>>

(* a request for a borrow of what, in the given mode *)
Borrow(mode, what) ==
    /\ LET r == IF mode = "shared" THEN Try_borrow(borrow[what])
                ELSE Try_borrow_mut(borrow[what])
       IN  /\ r.state.shared <= MaxShared
           /\ borrow' = [borrow EXCEPT ![what] = r.state]
           /\ ret' = [op |-> "borrow", mode |-> mode, what |-> what, ok |-> r.ok,
                      err |-> IF r.ok THEN "none" ELSE "Borrow"]
    /\ Unchanged_store

(* a view is dropped: its borrow ends *)
Release(mode, what) ==
    /\ IF mode = "shared" THEN borrow[what].shared > 0 ELSE borrow[what].exclusive
    /\ borrow' = [borrow EXCEPT ![what] =
                     IF mode = "shared" THEN [@ EXCEPT !.shared = @ - 1]
                     ELSE [@ EXCEPT !.exclusive = FALSE]]
    /\ ret' = [op |-> "release", mode |-> mode, what |-> what]
    /\ Unchanged_store

NextBorrow ==
    \/ \E mode \in BorrowModes, what \in Borrowables : Borrow(mode, what)
    \/ \E mode \in BorrowModes, what \in Borrowables : Release(mode, what)

SpecBorrow ==
    Init /\ [][NextBorrow]_vars

(* ------------------------------------------------------------------------*)
(* Get on a tuple of views.  views is the tuple, each element a view kind  *)
(* and the type of its storage; Ok carries the tuple of the elements'      *)
(* results, Err the MissingComponent of the element that failed.  seen is  *)
(* the number of elements whose get was called.                            *)
(* ------------------------------------------------------------------------*)
RECURSIVE Tuple_eval(_, _, _, _, _)
Tuple_eval(views, fast, st, entity, out) ==
    IF Len(out) = Len(views)
    THEN [ok |-> TRUE, out |-> out, seen |-> Len(out)]
    ELSE LET v == views[Len(out) + 1]
             r == GetOf(v.kind, fast, st[v.ty], entity, v.ty)
         IN  IF r.ok
             THEN Tuple_eval(views, fast, st, entity, Append(out, r))
             ELSE [ok |-> FALSE, id |-> r.id, name |-> r.name, seen |-> Len(out) + 1]

(* a tuple get that goes on after a failure and reports the last one *)
RECURSIVE Tuple_eval_last(_, _, _, _, _, _)
Tuple_eval_last(views, fast, st, entity, n, acc) ==
    IF n > Len(views)
    THEN acc
    ELSE LET v == views[n]
             r == GetOf(v.kind, fast, st[v.ty], entity, v.ty)
         IN  IF r.ok
             THEN Tuple_eval_last(views, fast, st, entity, n + 1,
                                  IF acc.ok THEN [acc EXCEPT !.out = Append(@, r), !.seen = n]
                                  ELSE acc)
             ELSE Tuple_eval_last(views, fast, st, entity, n + 1,
                                  [ok |-> FALSE, id |-> r.id, name |-> r.name, seen |-> n])

Tuple_get_last(views, st, entity) ==
    Tuple_eval_last(views, FALSE, st, entity, 1, [ok |-> TRUE, out |-> <<>>, seen |-> 0])

(* impl Get for (A, B, ...): Ok((self.0.get(entity)?, self.1.get(entity)?, ...)) *)
Tuple_get(views, st, entity) ==
    Tuple_eval(views, FALSE, st, entity, <<>>)

Tuple_fast_get(views, st, entity) ==
    Tuple_eval(views, TRUE, st, entity, <<>>)

(* The tuples of views a caller can build: an exclusive view of a storage  *)
(* cannot stand beside another view of the same storage.  Pairs of every   *)
(* kind, and triples of shared views.                                      *)
ViewsOf ==
    [kind : ViewKinds, ty : Types]

TupleViews ==
    {vs \in [1 .. 2 -> ViewsOf] :
        vs[1].ty = vs[2].ty
            => (vs[1].kind # "&mut ViewMut" /\ vs[2].kind # "&mut ViewMut")}
    \cup [1 .. 3 -> [kind : {"&View"}, ty : Types]]

(* get or fast_get on a tuple of views *)
GetTuple(views, fast, entity) ==
    /\ ret' = [op |-> "get_tuple", views |-> views, fast |-> fast, key |-> entity,
               res |-> IF fast THEN Tuple_fast_get(views, storages, entity)
                       ELSE Tuple_get(views, storages, entity)]
    /\ UNCHANGED <<storages, touched>>
    /\ Unchanged_entities

NextTuple ==
    \/ \E t \in Types, entity \in StorageIds : Insert(t, entity, ComponentOf(entity))
    \/ \E t \in Types, entity \in StorageIds : Remove(t, entity)
    \/ \E views \in TupleViews, fast \in BOOLEAN, entity \in StorageIds :
          GetTuple(views, fast, entity)
    \/ \E kind \in ViewKinds, fast \in BOOLEAN, t \in Types, entity \in StorageIds :
          Get(kind, fast, t, entity)

SpecTuple ==
    Init /\ [][NextTuple]_vars

NextWorld ==
    \/ (list = None => Len(data) < MaxWorldEntities) /\ Generate
    \/ \E entity \in issued : Delete(entity)
    \/ \E t \in Types, entity \in issued : AddComponent(t, entity)

SpecWorld ==
    Init /\ [][NextWorld]_vars

(* ------------------------------------------------------------------------*)
(* Claims about the allocator.                                             *)
(* ------------------------------------------------------------------------*)
KeyOf(index, version) ==
    index + version * Pow2(USIZE_BITS - VERSION_LEN)

(* C1: free-list FIFO.  Whenever a reusable slot is waiting, generate      *)
(* returns the index of the handle that was deleted earliest among the     *)
(* waiting ones, with its generation one higher than that handle's.        *)
C1_FreeListFifo ==
    [][(ret'.op = "generate" /\ freed # <<>>)
         => /\ Key_index(ret'.key) = Key_index(Head(freed))
            /\ Key_version(ret'.key) = Key_version(Head(freed)) + 1]_vars

(* Indices 0, 1, 2 allocated, 0 then 1 deleted: with both waiting, the     *)
(* first of the following generate calls has just returned index 0 at      *)
(* generation 1, and index 1 is next.                                      *)
C1_Witness ==
    /\ ret.op = "generate"
    /\ ret.queued = 2
    /\ ret.key = KeyOf(0, 1)
    /\ freed = <<KeyOf(1, 0)>>
    /\ alive = {KeyOf(0, 1), KeyOf(2, 0)}

(* C2: delete(h) returns true if and only if h was returned by generate    *)
(* and has not been deleted since.                                         *)
C2_DeleteTrueIffAlive ==
    ret.op = "delete" => (ret.ok <=> ret.wasAlive)

(* C3: generate never returns a handle it has returned before.             *)
C3_NeverReissued ==
    [][ret'.op = "generate" => ret'.key \notin issued]_vars

(* An index has been reused: the handle just returned shares its index     *)
(* with an earlier handle.                                                 *)
C3_Witness ==
    /\ ret.op = "generate"
    /\ \E k \in issued : k # ret.key /\ Key_index(k) = Key_index(ret.key)

(* C4: the handle returned by the n-th reuse of an index has generation n  *)
(* (cycles counts the times generate has returned the index).              *)
C4_GenerationCount ==
    ret.op = "generate" => Key_version(ret.key) = cycles[Key_index(ret.key)] - 1

(* An index handed out for the third time, at the last valid generation.   *)
C4_Witness ==
    /\ ret.op = "generate"
    /\ cycles[Key_index(ret.key)] = LastVersion + 1
    /\ Key_version(ret.key) = LastVersion

(* C5: generate reuses a removed slot whenever one is waiting, and only    *)
(* otherwise appends a new slot, whose index is the old table length and   *)
(* whose generation is 0.                                                  *)
C5_ReuseBeforeGrow ==
    [][ret'.op = "generate"
         => IF freed # <<>>
            THEN /\ Len(data') = Len(data)
                 /\ Key_index(ret'.key) < Len(data)
            ELSE /\ Len(data') = Len(data) + 1
                 /\ Key_index(ret'.key) = Len(data)
                 /\ Key_version(ret'.key) = 0]_vars

(* A table that grew although an index had been recycled before, because   *)
(* no removed slot was waiting at the call.                                *)
C5_Witness ==
    /\ ret.op = "generate"
    /\ ret.queued = 0
    /\ Key_index(ret.key) = Len(data) - 1
    /\ \E k \in alive : Key_version(k) > 0

(* C6: deleting a live handle of the last valid generation returns true    *)
(* and leaves the free list as it was, and generate never again returns    *)
(* the index of a handle retired this way.                                 *)
C6_Retirement ==
    [][/\ (ret'.op = "delete" /\ ret'.key \in alive /\ Key_version(ret'.key) = LastVersion)
            => (ret'.ok /\ list' = list)
       /\ ret'.op = "generate"
            => \A k \in retired : Key_index(ret'.key) # Key_index(k)]_vars

(* A generate call made after a slot was retired while another removed     *)
(* slot was waiting.                                                       *)
C6_Witness ==
    /\ ret.op = "generate"
    /\ retired # {}
    /\ ret.queued > 0

(* C7: deleting again the handle of a retired slot returns false.          *)
C7_DeadDeleteFalse ==
    (ret.op = "delete" /\ ret.wasRetired) => ~ret.ok

(* ------------------------------------------------------------------------*)
(* Claims about deletion with the storages, and about get.                 *)
(* ------------------------------------------------------------------------*)
(* what get finds for entity in storage s: the component, 0 for nothing *)
Component(s, entity, name) ==
    LET r == View_get(s, entity, name)
    IN  IF r.ok THEN r.data ELSE 0

(* C8: cascade deletion.  When Entities::delete returns true for e, then   *)
(* afterwards get(e) finds nothing in any storage, and get of every other  *)
(* entity finds in every storage what it found before.                     *)
C8_CascadeDelete ==
    [][(ret'.op = "delete" /\ ret'.ok)
         => \A t \in Types :
              /\ ~View_get(storages'[t], ret'.key, t).ok
              /\ \A other \in issued \ {ret'.key} :
                   Component(storages'[t], other, t) = Component(storages[t], other, t)]_vars

(* An entity that had a component in every storage has just been deleted   *)
(* while another entity owns a component in every storage.                 *)
C8_Witness ==
    /\ ret.op = "delete"
    /\ ret.ok
    /\ ret.had = Types
    /\ \E other \in alive : \A t \in Types : View_get(storages[t], other, t).ok

(* C9: delete of a handle that is not alive returns false and changes      *)
(* neither the table, nor the free list, nor any storage.                  *)
C9_DeleteNotAliveNoOp ==
    [][(ret'.op = "delete" /\ ~ret'.wasAlive)
         => /\ ~ret'.ok
            /\ data' = data
            /\ list' = list
            /\ storages' = storages]_vars

(* C10: get on a view of one storage returns the component stored for e    *)
(* when the storage has an entry owned by e, and otherwise the             *)
(* MissingComponent error with id e and the name of the storage's type.    *)
C10_SingleViewGet ==
    (ret.op = "get" /\ ~ret.fast)
      => LET s == storages[ret.ty]
         IN  IF \E p \in 1 .. Len(s.dense) : s.dense[p].id = ret.key
             THEN /\ ret.res.ok
                  /\ ret.res.index \in 1 .. Len(s.dense)
                  /\ s.dense[ret.res.index].id = ret.key
                  /\ ret.res.data = s.data[ret.res.index]
             ELSE /\ ~ret.res.ok
                  /\ ret.res.id = ret.key
                  /\ ret.res.name = ret.ty

(* get through an exclusive view has failed for an id whose index is       *)
(* occupied in that storage by another generation.                         *)
C10_Witness ==
    /\ ret.op = "get"
    /\ ~ret.fast
    /\ ret.view = "&mut ViewMut"
    /\ ~ret.res.ok
    /\ storages[ret.ty].sparse[Key_index(ret.key)] # 0

(* ------------------------------------------------------------------------*)
(* Claims about get on tuples, fast_get and change tracking.               *)
(* ------------------------------------------------------------------------*)
(* the position in storage s of the entry owned by entity, 0 for none *)
OwnedAt(s, entity) ==
    IF \E p \in 1 .. Len(s.dense) : s.dense[p].id = entity
    THEN CHOOSE p \in 1 .. Len(s.dense) : s.dense[p].id = entity
    ELSE 0

(* the elements of a tuple of views whose storage has no entry of entity *)
MissingIn(views, st, entity) ==
    {i \in DOMAIN views : OwnedAt(st[views[i].ty], entity) = 0}

Least(S) ==
    CHOOSE i \in S : \A j \in S : i <= j

(* C11: get on a tuple of views succeeds exactly when every element's      *)
(* storage has the entity's component, and then returns the components in  *)
(* the tuple's order; otherwise it fails with the MissingComponent of the  *)
(* leftmost element whose component is missing, naming that element's      *)
(* type, and no element to its right has been accessed.                    *)
C11_TupleShortCircuit ==
    (ret.op = "get_tuple" /\ ~ret.fast)
      => LET missing == MissingIn(ret.views, storages, ret.key)
         IN  IF missing = {}
             THEN /\ ret.res.ok
                  /\ Len(ret.res.out) = Len(ret.views)
                  /\ \A i \in DOMAIN ret.views :
                        LET s == storages[ret.views[i].ty]
                        IN  /\ ret.res.out[i].index = OwnedAt(s, ret.key)
                            /\ ret.res.out[i].data = s.data[OwnedAt(s, ret.key)]
             ELSE /\ ~ret.res.ok
                  /\ ret.res.id = ret.key
                  /\ ret.res.name = ret.views[Least(missing)].ty
                  /\ ret.res.seen = Least(missing)

(* A pair of views of two storages, the first holding the entity's         *)
(* component and the second not: the error names the second type.          *)
C11_Witness ==
    /\ ret.op = "get_tuple"
    /\ ~ret.fast
    /\ Len(ret.views) = 2
    /\ ret.views[1].ty # ret.views[2].ty
    /\ OwnedAt(storages[ret.views[1].ty], ret.key) # 0
    /\ OwnedAt(storages[ret.views[2].ty], ret.key) = 0
    /\ ~ret.res.ok
    /\ ret.res.name = ret.views[2].ty

(* two results of get agree: both Ok on the same slot and component, or    *)
(* both the same MissingComponent                                          *)
SameOutcome(r1, r2) ==
    /\ r1.ok = r2.ok
    /\ r1.ok => (r1.index = r2.index /\ r1.data = r2.data)
    /\ ~r1.ok => (r1.id = r2.id /\ r1.name = r2.name)

(* C12: fast_get has the success/failure contract of get.  Whatever call   *)
(* has just been made on a view or a tuple of views, the other of get and  *)
(* fast_get, made on the same storages for the same entity, succeeds       *)
(* exactly when it did, on the same components, and fails with the same    *)
(* MissingComponent.                                                       *)
C12_FastGetSameContract ==
    /\ ret.op = "get"
         => SameOutcome(ret.res,
                        GetOf(ret.view, ~ret.fast, storages[ret.ty], ret.key, ret.ty))
    /\ ret.op = "get_tuple"
         => LET other == IF ret.fast THEN Tuple_get(ret.views, storages, ret.key)
                         ELSE Tuple_fast_get(ret.views, storages, ret.key)
            IN  /\ ret.res.ok = other.ok
                /\ ret.res.ok
                     => /\ Len(ret.res.out) = Len(other.out)
                        /\ \A i \in DOMAIN ret.res.out :
                              SameOutcome(ret.res.out[i], other.out[i])
                /\ ~ret.res.ok
                     => (ret.res.id = other.id /\ ret.res.name = other.name)

(* fast_get on a pair holding an exclusive view has failed on the          *)
(* exclusive view, for an entity whose index another generation occupies   *)
(* in that storage.                                                        *)
C12_Witness ==
    /\ ret.op = "get_tuple"
    /\ ret.fast
    /\ ~ret.res.ok
    /\ ret.views[ret.res.seen].kind = "&mut ViewMut"
    /\ storages[ret.res.name].sparse[Key_index(ret.key)] # 0

(* the modified flags of a storage, slot by slot *)
ModifiedFlags(s) ==
    [p \in 1 .. Len(s.dense) |-> s.dense[p].modified]

(* C13 as stated: within one tracking epoch, the first get on an exclusive *)
(* view used to write a slot flags that slot, and no other, modified; a    *)
(* later one in the epoch leaves every flag as it was; a write through     *)
(* fast_get never changes a modified flag.                                 *)
C13_FlaggedExactlyOnce ==
    [][(ret'.op = "write" /\ ret'.res.ok)
         => LET t == ret'.ty
                p == ret'.res.index
            IN  IF ret'.fast
                THEN \A u \in Types : ModifiedFlags(storages'[u]) = ModifiedFlags(storages[u])
                ELSE storages[t].track
                       => IF ret'.again
                          THEN storages'[t].dense = storages[t].dense
                          ELSE storages'[t].dense
                                 = [storages[t].dense EXCEPT ![p].modified = TRUE]]_vars

(* C13, amended: the first such get flags the slot modified unless the     *)
(* slot was inserted in this epoch, and then it changes no flag at all.    *)
C13_ChangeFlagIdempotence ==
    [][(ret'.op = "write" /\ ret'.res.ok)
         => LET t == ret'.ty
                p == ret'.res.index
            IN  IF ret'.fast
                THEN \A u \in Types : ModifiedFlags(storages'[u]) = ModifiedFlags(storages[u])
                ELSE storages[t].track
                       => IF ret'.again \/ storages[t].dense[p].inserted
                          THEN storages'[t].dense = storages[t].dense
                          ELSE storages'[t].dense
                                 = [storages[t].dense EXCEPT ![p].modified = TRUE]]_vars

(* A slot that was not inserted in this epoch has been written through get *)
(* for the second time in the epoch, with a new value, and is flagged      *)
(* modified; another slot of the storage is not.                           *)
C13_Witness ==
    /\ ret.op = "write"
    /\ ~ret.fast
    /\ ret.res.ok
    /\ ret.again
    /\ ret.res.data # storages[ret.ty].data[ret.res.index]
    /\ storages[ret.ty].dense[ret.res.index].modified
    /\ ~storages[ret.ty].dense[ret.res.index].inserted
    /\ \E q \in 1 .. Len(storages[ret.ty].dense) : ~storages[ret.ty].dense[q].modified

(* ------------------------------------------------------------------------*)
(* Claims about borrowing.                                                 *)
(* ------------------------------------------------------------------------*)
(* C14: borrow exclusivity.  Every storage has no borrow, shared borrows   *)
(* only, or one exclusive borrow and no other; a request is granted        *)
(* exactly when it is a shared one and no exclusive borrow is held, or an  *)
(* exclusive one and no borrow at all is held; a refused request fails     *)
(* with a borrow conflict and leaves the borrows as they were.             *)
C14_BorrowExclusivity ==
    /\ [](\A b \in Borrowables : ~(borrow[b].exclusive /\ borrow[b].shared > 0))
    /\ [][ret'.op = "borrow"
            => LET b == borrow[ret'.what]
                   free == IF ret'.mode = "shared" THEN ~b.exclusive
                           ELSE ~b.exclusive /\ b.shared = 0
               IN  /\ ret'.ok <=> free
                   /\ ~ret'.ok => (borrow' = borrow /\ ret'.err = "Borrow")
                   /\ ret'.ok
                        => borrow'[ret'.what] =
                             IF ret'.mode = "shared" THEN [b EXCEPT !.shared = @ + 1]
                             ELSE [b EXCEPT !.exclusive = TRUE]]_vars

(* An exclusive borrow has just been refused for a storage with two shared *)
(* borrows, granted one after the other, while another storage is          *)
(* borrowed exclusively.                                                   *)
C14_Witness ==
    /\ ret.op = "borrow"
    /\ ret.mode = "exclusive"
    /\ ~ret.ok
    /\ borrow[ret.what].shared = 2
    /\ \E b \in Borrowables : borrow[b].exclusive

(* ------------------------------------------------------------------------*)
(* Claims about the sparse set.                                            *)
(* ------------------------------------------------------------------------*)
(* the handles present in storage s *)
Present(s) ==
    {s.dense[p].id : p \in 1 .. Len(s.dense)}

(* C15: sparse-set consistency.  In every storage, after every insert and  *)
(* remove, dense and data have the same length; every handle present in    *)
(* dense is the one its sparse entry points at; every sparse entry in use  *)
(* points inside dense, at a handle of that index; and a handle that is    *)
(* absent is not found, whatever its index's sparse entry says.            *)
C15_SparseSetConsistency ==
    \A t \in Types :
        LET s == storages[t]
        IN  /\ Len(s.dense) = Len(s.data)
            /\ \A p \in 1 .. Len(s.dense) :
                  /\ s.sparse[Key_index(s.dense[p].id)] = p
                  /\ s.dense[s.sparse[Key_index(s.dense[p].id)]].id = s.dense[p].id
            /\ \A i \in DOMAIN s.sparse :
                  s.sparse[i] # 0
                    => /\ s.sparse[i] \in 1 .. Len(s.dense)
                       /\ Key_index(s.dense[s.sparse[i]].id) = i
            /\ \A h \in SparseIds \ Present(s) : ~SparseSet_contains(s, h)

(* The first of three slots has just been removed: the handle that was     *)
(* last now sits in the first slot, before the one that was second, and an *)
(* absent generation of a present handle's index is among the ids.         *)
C15_Witness ==
    /\ ret.op = "remove"
    /\ ret.removed # 0
    /\ ret.at = 1
    /\ \E t \in Types :
          /\ Len(storages[t].dense) = 2
          /\ \E h \in SparseIds \ Present(storages[t]) :
                storages[t].sparse[Key_index(h)] # 0

(* what an iteration yields, as a set *)
Yielded(s) ==
    {SparseSet_iter_with_id(s)[p] : p \in DOMAIN SparseSet_iter_with_id(s)}

(* C16: swap-removal.  remove(h) of a present handle returns the value of  *)
(* h; when h was not in the last slot, the last handle and its value now   *)
(* sit in h's slot and that handle's sparse entry points there; dense and  *)
(* data are one shorter, and iteration yields the handles that were        *)
(* present other than h, each once, with the value each had before.        *)
C16_SwapRemoval ==
    [][\A t \in Types, h \in SparseIds :
          (Remove(t, h) /\ h \in Present(storages[t]))
            => LET s    == storages[t]
                   s2   == storages'[t]
                   p    == OwnedAt(s, h)
                   last == Len(s.dense)
               IN  /\ ret'.removed = s.data[p]
                   /\ Len(s2.dense) = last - 1
                   /\ Len(s2.data) = last - 1
                   /\ p # last
                        => /\ s2.dense[p] = s.dense[last]
                           /\ s2.data[p] = s.data[last]
                           /\ s2.sparse[Key_index(s.dense[last].id)] = p
                   /\ s2.sparse[Key_index(h)] = 0
                   /\ Yielded(s2) = Yielded(s) \ {<<h, s.data[p]>>}
                   /\ Cardinality({y[1] : y \in Yielded(s2)}) = Len(s2.dense)]_vars

(* The middle one of three slots has just been removed, its value differing *)
(* from the value that moved into its place.                               *)
C16_Witness ==
    /\ ret.op = "remove"
    /\ ret.at = 2
    /\ \E t \in Types :
          /\ Len(storages[t].dense) = 2
          /\ storages[t].data[2] # ret.removed
          /\ storages[t].data[1] # storages[t].data[2]

(* C17: insert/get round trip.  Immediately after insert(h, v), whatever   *)
(* the storage held and whatever generation mapped h's index, get(h)       *)
(* returns v; and dense has grown, by one, only if h's index was not       *)
(* mapped before.                                                          *)
C17_InsertGetRoundTrip ==
    [][\A t \in Types, h \in SparseIds, v \in Values :
          Insert(t, h, v)
            => /\ View_get(storages'[t], h, t).ok
               /\ View_get(storages'[t], h, t).data = v
               /\ Len(storages'[t].dense) \in {Len(storages[t].dense), Len(storages[t].dense) + 1}
               /\ Len(storages'[t].dense) = Len(storages[t].dense) + 1
                    => storages[t].sparse[Key_index(h)] = 0]_vars

(* ------------------------------------------------------------------------*)
(* Claims about Key and TypeId.                                            *)
(* ------------------------------------------------------------------------*)
(* C18: handle packing round trip.  A Key reads back the index it was last *)
(* given, by new or set_index, and as generation the number of successful  *)
(* bump_version calls made on it: set_index leaves the version and         *)
(* bump_version the index, and a successful bump adds exactly one.         *)
C18_PackingRoundTrip ==
    HasKey
      => /\ Key_index(ret.key) = ret.built[1]
         /\ Key_version(ret.key) = ret.built[2]
         /\ ret.op = "set_index" => Key_version(ret.key) = Key_version(ret.from)
         /\ (ret.op = "bump_version" /\ ret.ok)
              => /\ Key_version(ret.key) = Key_version(ret.from) + 1
                 /\ Key_index(ret.key) = Key_index(ret.from)

(* set_index has just given the largest index to a key of another index    *)
(* that had been bumped to the last valid generation.                      *)
C18_Witness ==
    /\ ret.op = "set_index"
    /\ ret.arg = INDEX_MASK
    /\ Key_index(ret.from) # INDEX_MASK
    /\ Key_index(ret.from) # 0
    /\ ret.built = <<INDEX_MASK, LastVersion>>

(* C19: two type identifiers are equal exactly when the types are the      *)
(* same: the same type gives the same identifier, two types give two, and  *)
(* comparing an identifier with a type's native token, in either order,    *)
(* is comparing it with that type's identifier.                            *)
C19_TypeIdEquality ==
    ret.op = "type_id"
      => /\ ret.eq <=> (ret.a = ret.b)
         /\ ret.eq_native <=> (ret.id_a = ret.id_b)
         /\ ret.native_eq <=> (ret.id_a = ret.id_b)

C21_MutMarker ==
    [][(ret'.op = "write" /\ ~ret'.fast /\ ret'.res.ok)
         => LET s == storages[ret'.ty]
                p == OwnedAt(s, ret'.key)
            IN  /\ ret'.res.index = p
                /\ ret'.res.flag <=> (s.track /\ ~s.dense[p].inserted)
                /\ ~ret'.res.flag
                     => \A u \in Types :
                          ModifiedFlags(storages'[u]) = ModifiedFlags(storages[u])
                /\ ret'.res.flag => storages'[ret'.ty].dense[p].modified]_vars

(* A new value has been written through a Mut without marker to a slot     *)
(* inserted in this epoch of a tracking storage, beside a slot of that     *)
(* storage that is flagged modified: the slot written is not.              *)
C21_Witness ==
    /\ ret.op = "write"
    /\ ~ret.fast
    /\ ret.res.ok
    /\ ~ret.res.flag
    /\ storages[ret.ty].track
    /\ storages[ret.ty].dense[ret.res.index].inserted
    /\ ~storages[ret.ty].dense[ret.res.index].modified
    /\ storages[ret.ty].data[ret.res.index] # ret.res.data
    /\ \E q \in 1 .. Len(storages[ret.ty].dense) : storages[ret.ty].dense[q].modified

(* the indices met by following the links of the table d from index at to  *)
(* index tail, in order; <<-1>> stands for a link that leaves the table or *)
(* a walk that has made more steps than the table has slots                *)
RECURSIVE FreeListFrom(_, _, _, _)
FreeListFrom(d, at, tail, fuel) ==
    IF fuel = 0 \/ at >= Len(d)
    THEN <<-1>>
    ELSE IF at = tail
    THEN <<at>>
    ELSE <<at>> \o FreeListFrom(d, Key_index(Slot(d, at)), tail, fuel - 1)

(* C22: the allocator's structure.  Every live handle's slot stores the    *)
(* handle, so its own index; the cursors are None exactly when no removed  *)
(* slot waits for reuse; otherwise the links from the head lead, without   *)
(* repeating an index, through exactly the removed reusable slots, in the  *)
(* order of their removal, to the tail, and through no live or dead slot.  *)
C22_AllocatorStructure ==
    /\ \A k \in alive :
          /\ Key_index(k) < Len(data)
          /\ Slot(data, Key_index(k)) = k
          /\ Key_index(Slot(data, Key_index(k))) = Key_index(k)
    /\ list = None <=> freed = <<>>
    /\ list # None
         => LET walk == FreeListFrom(data, list[1], list[2], Len(data))
            IN  /\ walk = [i \in 1 .. Len(freed) |-> Key_index(freed[i])]
                /\ walk[Len(walk)] = list[2]
                /\ \A i, j \in 1 .. Len(walk) : i # j => walk[i] # walk[j]
                /\ \A i \in 1 .. Len(walk) :
                      /\ \A k \in alive : Key_index(k) # walk[i]
                      /\ \A k \in retired : Key_index(k) # walk[i]

(* Two removed slots wait for reuse, the later-allocated one first, beside *)
(* a dead slot, after slots have been reused: the delete just made has put *)
(* its slot at the tail.                                                   *)
C22_Witness ==
    /\ ret.op = "delete"
    /\ ret.ok
    /\ Len(freed) = 2
    /\ retired # {}
    /\ list # None
    /\ list[1] > list[2]
    /\ list[2] = Key_index(ret.key)

(* ------------------------------------------------------------------------*)
(* The demonstration game: main's loop and the systems of its workload     *)
(* that touch the player's counters, in the workload's order.  move_player,*)
(* move_square, grow_square, new_squares and render leave the player's     *)
(* flags, counters and size alone.                                         *)
(* ------------------------------------------------------------------------*)
Unchanged_shipyard ==
    UNCHANGED <<data, list, storages, ret, issued, alive, freed, retired, cycles, touched,
                borrow>>

(* the sequences of at most n overlapped squares *)
Hits(n) ==
    UNION {[1 .. m -> HitKinds] : m \in 0 .. n}

(* main: the click that starts the game *)
Start ==
    /\ frame.pc = "menu"
    /\ frame' = [frame EXCEPT !.pc = "counters"]
    /\ UNCHANGED player
    /\ Unchanged_shipyard

(* a run of the workload begins: counters *)
Counters ==
    /\ frame.pc = "counters"
    /\ player' = counters(player)
    /\ frame' = [frame EXCEPT !.pc = "collision", !.since = Min(frame.since + 1, I_TICKS + 1)]
    /\ Unchanged_shipyard

(* collision *)
Collision(pickup, hits) ==
    /\ frame.pc = "collision"
    /\ CanHitAll([player |-> collision_squagums(player, pickup), shrinks |-> 0], hits)
    /\ LET s == collision(player, pickup, hits)
       IN  /\ player' = s.player
           /\ frame' = [frame EXCEPT !.pc = "clean_up",
                                     !.shrinks = s.shrinks,
                                     !.since = IF s.shrinks > 0 THEN 0 ELSE frame.since]
    /\ Unchanged_shipyard

(* clean_up ends the run of the workload, or the game *)
CleanUp(empty) ==
    /\ frame.pc = "clean_up"
    /\ frame' = [frame EXCEPT !.pc = IF clean_up(player, empty) = "Ok"
                                        THEN "counters"
                                        ELSE "game_over"]
    /\ UNCHANGED player
    /\ Unchanged_shipyard

(* main, on the workload's error: the world is cleared and set up again *)
Restart ==
    /\ frame.pc = "game_over"
    /\ player' = Player_new
    /\ frame' = [pc |-> "menu", since |-> I_TICKS + 1, shrinks |-> 0]
    /\ Unchanged_shipyard

NextGame ==
    \/ Start
    \/ Counters
    \/ \E pickup \in BOOLEAN, hits \in Hits(MaxHits) : Collision(pickup, hits)
    \/ \E empty \in BOOLEAN : CleanUp(empty)
    \/ Restart

SpecGame ==
    Init /\ [][NextGame]_vars

(* C23: within one game, once the collision system has made the player    *)
(* invincible, the player is invincible through the next 9 runs of the     *)
(* workload, with i_counter counting them, and the counters system of the  *)
(* 10th run clears invincibility and resets i_counter to 0; a run of the   *)
(* collision system shrinks the player at most once, and only when 10 or   *)
(* more runs have begun since it last did, so that any 10 consecutive runs *)
(* shrink the player at most once; and i_counter is 0 whenever the player  *)
(* is not invincible.                                                      *)
C23_InvincibilityWindow ==
    /\ [](frame.since < I_TICKS
            => player.is_invincible /\ player.i_counter = frame.since)
    /\ [](~player.is_invincible => player.i_counter = 0)
    /\ [][(frame.pc = "counters" /\ frame'.pc = "collision" /\ frame'.since = I_TICKS)
            => ~player'.is_invincible /\ player'.i_counter = 0]_vars
    /\ [][(frame.pc = "collision" /\ frame'.pc = "clean_up")
            => /\ frame'.shrinks <= 1
               /\ frame'.shrinks = 1
                    => /\ frame.since >= I_TICKS
                       /\ ~player.is_invincible
                       /\ player'.is_invincible
                       /\ player'.i_counter = 0]_vars

(* The counters system has just cleared, in the 10th run of the workload   *)
(* after the collision that shrank the player, the invincibility that had  *)
(* lasted through the nine runs before.                                    *)
C23_Witness ==
    /\ frame.pc = "collision"
    /\ frame.since = I_TICKS
    /\ ~player.is_invincible
    /\ player.i_counter = 0
    /\ player.w < INIT_SIZE * 3

====
